---- MODULE Spec2Model ----
(***************************************************************************)
(* A model of forge_kernel.py: the WebSocketManager (connection registry   *)
(* and broadcast fan-out), ForgeKernel._spawn_task (the task lifecycle)    *)
(* and the /ws handler websocket_endpoint.                                 *)
(*                                                                         *)
(* The program runs on one asyncio event loop.  A flow (one HTTP request,  *)
(* one /ws handler) runs without interruption from one await to the next,  *)
(* so every action below is the code of one flow from the await it is      *)
(* suspended at to the next await it reaches.  bragi.process_task is a     *)
(* plain call, not an await: the flow does not yield around it.            *)
(***************************************************************************)
EXTENDS Integers, Sequences, FiniteSets, TLC

\* ------------------------------------------------------------------ bounds
MaxSubs == 2           \* POST /tasks requests that arrive
MaxConns == 3          \* /ws requests that arrive
MaxRelays == 2         \* client messages relayed, over all connections
MaxFaults == 2         \* sends that fail
RecvWindow == 2        \* messages kept of what each client was sent (the latest)
MaxRegistered == 2     \* length of the list, where WebSocketManager is used alone
MaxCallers == 1        \* broadcast() calls under way at once, where it is used alone

\* Requests and handles are named by their order of arrival.
Conns == 1..MaxConns
Subs == 1..MaxSubs
ApiCallers == 1..MaxCallers

\* What the environment does in one run: how many requests of each kind
\* arrive, how many client messages are relayed, how many sends fail,
\* whether the sends to one handle complete in the order they were started
\* ("fifo") or in any order ("any"), and which request bodies (of Payloads)
\* and which client events (of ClientEvents) occur.
Workloads ==
  { [ subs |-> MaxSubs, conns |-> 1, relays |-> 0, faults |-> 1,
      transport |-> "any", payloads |-> { 1, 2, 6, 7 }, events |-> 1..4 ],
    [ subs |-> 1, conns |-> MaxConns - 1, relays |-> 0, faults |-> 1,
      transport |-> "any", payloads |-> 1..2, events |-> 1..4 ],
    [ subs |-> 1, conns |-> 1, relays |-> 1, faults |-> MaxFaults,
      transport |-> "any", payloads |-> 1..2, events |-> 1..4 ],
    [ subs |-> 0, conns |-> MaxConns - 1, relays |-> MaxRelays,
      faults |-> MaxFaults, transport |-> "any", payloads |-> 1..2,
      events |-> 1..4 ],
    [ subs |-> 0, conns |-> MaxConns, relays |-> MaxRelays, faults |-> 0,
      transport |-> "fifo", payloads |-> 1..2, events |-> 1..4 ],
    [ subs |-> 1, conns |-> 1, relays |-> 0, faults |-> 0,
      transport |-> "any", payloads |-> 1..8, events |-> 1..4 ],
    [ subs |-> 0, conns |-> MaxConns - 1, relays |-> 1, faults |-> 1,
      transport |-> "any", payloads |-> 1..2, events |-> 1..6 ] }

\* --------------------------------------------------------------- constants
None == "None"

PENDING == "pending"
IN_PROGRESS == "in_progress"
COMPLETED == "completed"
FAILED == "failed"
TaskStatus == {PENDING, IN_PROGRESS, COMPLETED, FAILED}

allowed_origins ==
  { "http://localhost:3000", "http://localhost:3001", "http://localhost:3002",
    "https://forgelabs-six.vercel.app", "https://forgeagi.xyz",
    "https://www.forgeagi.xyz", "https://forgelabs-production.up.railway.app" }

\* ------------------------------------------------------------------ inputs
\* The origin header of a /ws request: one on the list, one not.
Origins == { "https://forgeagi.xyz", "https://evil.example" }

\* What "await request.json()" yields for the body of POST /tasks.  A dict:
\* one for an agent the code knows, one for an agent it does not; then one
\* without agent_id and one for each other agent the code knows.  Then a body
\* that is not JSON (request.json() raises), and JSON that is not a dict: a
\* list and null.
Payloads ==
  << [kind |-> "dict", value |-> [description |-> "ping", agent_id |-> "coordinator"]],
     [kind |-> "dict", value |-> [description |-> "ping", agent_id |-> "nobody"]],
     [kind |-> "dict", value |-> [description |-> "ping"]],
     [kind |-> "dict", value |-> [description |-> "ping", agent_id |-> "assistant"]],
     [kind |-> "dict", value |-> [description |-> "ping", agent_id |-> "architect"]],
     [kind |-> "JSONDecodeError"],
     [kind |-> "list", value |-> << 1, 2 >>],
     [kind |-> "NoneType"] >>

\* What bragi.process_task does: return a text or raise with a message.
GatewayOutcomes ==
  { [kind |-> "return", text |-> "pong"], [kind |-> "raise", text |-> "timeout"] }

\* What receive_json yields: a dict with "type", a dict without "type", the
\* peer's disconnect, or an error (malformed JSON); then a dict with "type"
\* and no "data", and a dict with another "type" and other "data".
ClientEvents ==
  << [kind |-> "json", json |-> [type |-> "chat", data |-> "hi"]],
     [kind |-> "json", json |-> [data |-> "hi"]],
     [kind |-> "WebSocketDisconnect"],
     [kind |-> "Exception"],
     [kind |-> "json", json |-> [type |-> "chat"]],
     [kind |-> "json", json |-> [type |-> "move", data |-> "up"]] >>

\* ------------------------------------------------------------------- state
VARIABLES
  active_connections,  \* WebSocketManager.active_connections: a list of handles
  tasks,               \* ForgeKernel.tasks: a list of Task objects
  tasks_completed,     \* SystemMetrics.tasks_completed
  tasks_failed,        \* SystemMetrics.tasks_failed
  BRAGI_AVAILABLE,     \* set once at import time
  clock,               \* datetime.now(): the value the next reading returns
                       \* (times are kept up to their order, see Commit)
  sub,                 \* sub[s]: the flow of POST /tasks request s
  ws,                  \* ws[c]: the flow of the /ws handler of handle c
  api,                 \* api[a]: the flow of caller a of broadcast(), where
                       \* WebSocketManager is used alone
  recv,                \* recv[c]: the latest messages sent to client c, in order
  inflight,            \* inflight[c]: the flows suspended in a send to c, oldest first
  load,                \* the workload of this run (never changes)
  faults,              \* history: number of sends that have failed
  gateway_calls,       \* history: number of bragi.process_task calls
  relays,              \* history: number of client messages relayed
  returned,            \* history: what each broadcast that returned in the latest
                       \* step did, in order
  ended,               \* history: the handler the latest step ended, where it
                       \* was, and whether its handle was still registered
  heard                \* history: the client message the latest step relayed,
                       \* and the handle it came in on

vars == << active_connections, tasks, tasks_completed, tasks_failed,
           BRAGI_AVAILABLE, clock, sub, ws, api, recv, inflight, load, faults,
           gateway_calls, relays, returned, ended, heard >>

\* --------------------------------------------------------------- sequences
Range(s) == { s[i] : i \in 1..Len(s) }

Member(s, x) == \E i \in 1..Len(s) : s[i] = x

\* list.remove(x): drops the first occurrence of x (x is in the list).
ListRemove(s, x) ==
  LET i == CHOOSE k \in 1..Len(s) : s[k] = x /\ \A j \in 1..(k - 1) : s[j] # x
  IN  SubSeq(s, 1, i - 1) \o SubSeq(s, i + 1, Len(s))

Count(s, x) == Cardinality({ i \in 1..Len(s) : s[i] = x })

\* ------------------------------------------------------------------- world
\* No handler ended in the latest step.
NoEnd == [ handle |-> 0, from |-> "none", absent |-> FALSE ]

\* No client message was relayed in the latest step.
NoMessage == [ handle |-> 0, json |-> << >> ]

\* The shared state together with the local state (loc) of the running flow.
World(self, loc) ==
  [ self |-> self, loc |-> loc,
    active_connections |-> active_connections, tasks |-> tasks,
    tasks_completed |-> tasks_completed, tasks_failed |-> tasks_failed,
    clock |-> clock, recv |-> recv, inflight |-> inflight, faults |-> faults,
    gateway_calls |-> gateway_calls, relays |-> relays,
    returned |-> << >>, ended |-> NoEnd, heard |-> NoMessage ]

\* The flow self has run to its next await and left the world w.  A flow
\* that is inside a broadcast while another flow changes the registry has
\* its broadcast marked not quiet (history).
\*
\* The program never computes with a time, and the model reads times only to
\* order messages: the times held in the state (the timestamps of the
\* envelopes being sent and of the messages in recv) are renumbered 1, 2, ...
\* in their order, and the clock is set past them.
Commit(w) ==
  w.faults <= load.faults /\
  LET changed == w.active_connections # active_connections
      seen(kind, id, l) ==
        IF w.self = << kind, id >> THEN w.loc
        ELSE IF changed /\ l.sending THEN [l EXCEPT !.quiet = FALSE]
        ELSE l
      sub1 == [s \in Subs |-> seen("sub", s, sub[s])]
      ws1 == [c \in Conns |-> seen("ws", c, ws[c])]
      api1 == [a \in ApiCallers |-> seen("api", a, api[a])]
      stamped(m) == "timestamp" \in DOMAIN m
      live == { sub1[s].msg.timestamp : s \in { x \in Subs : sub1[x].sending } }
                \cup { ws1[c].msg.timestamp : c \in { x \in Conns : ws1[x].sending } }
                \cup { api1[a].msg.timestamp : a \in { x \in ApiCallers : api1[x].sending } }
                \cup UNION { { w.recv[c][i].timestamp :
                                 i \in { j \in 1..Len(w.recv[c]) : stamped(w.recv[c][j]) } } :
                             c \in Conns }
      rank(t) == Cardinality({ u \in live : u <= t })
      flow(l) == IF l.sending THEN [l EXCEPT !.msg.timestamp = rank(@)] ELSE l
      message(m) == IF stamped(m) THEN [m EXCEPT !.timestamp = rank(@)] ELSE m
  IN  /\ active_connections' = w.active_connections
      /\ tasks' = w.tasks
      /\ tasks_completed' = w.tasks_completed
      /\ tasks_failed' = w.tasks_failed
      /\ clock' = Cardinality(live) + 1
      /\ recv' = [c \in Conns |-> [i \in 1..Len(w.recv[c]) |-> message(w.recv[c][i])]]
      /\ inflight' = w.inflight
      /\ gateway_calls' = w.gateway_calls
      /\ relays' = w.relays
      /\ returned' = w.returned
      /\ ended' = w.ended
      /\ heard' = w.heard
      /\ sub' = [s \in Subs |-> flow(sub1[s])]
      /\ ws' = [c \in Conns |-> flow(ws1[c])]
      /\ api' = [a \in ApiCallers |-> flow(api1[a])]
      /\ faults' = w.faults
      /\ UNCHANGED << BRAGI_AVAILABLE, load >>

\* The locals of broadcast(), when no broadcast is running.
NoBroadcast ==
  [ msg |-> None, idx |-> 0, disconnected |-> << >>, cur |-> 0, ok |-> TRUE,
    waiting |-> FALSE, sending |-> FALSE, delivered |-> << >>,
    before |-> << >>, quiet |-> TRUE ]

\* The running flow has run to its next await: the world it leaves is worked
\* out once, then committed.
Run(w) == \E v \in { w } : Commit(v)

\* Op applied to the world w, w worked out once.
Now(w, Op(_)) == CHOOSE r \in { Op(v) : v \in { w } } : TRUE

\* The latest RecvWindow messages of a client's log after one more message.
Received(log, message) ==
  IF Len(log) < RecvWindow THEN Append(log, message)
  ELSE Append(Tail(log), message)

\* ------------------------------------------------------- WebSocketManager
\* A disconnect without the membership test: list.remove raises ValueError
\* when the handle is not in the list.
disconnect_unchecked(world, websocket) ==
  Now(world, LAMBDA w :
    IF Member(w.active_connections, websocket)
    THEN [w EXCEPT !.active_connections = ListRemove(@, websocket)]
    ELSE [w EXCEPT !.loc.exc = "ValueError"])

\* disconnect(websocket): remove the handle if it is in the list.
disconnect(world, websocket) ==
  Now(world, LAMBDA w :
    IF Member(w.active_connections, websocket)
    THEN [w EXCEPT !.active_connections = ListRemove(@, websocket)]
    ELSE w)

\* connect(websocket), after accept() has returned: append the handle.
connect(world, websocket) ==
  Now(world, LAMBDA w :
    [w EXCEPT !.active_connections = Append(@, websocket)])

\* The start of await connection.send_json(message): the message is handed to
\* the transport (ok) or the send is going to raise (~ok); the flow waits.
send_json(world, connection, message, ok) ==
  Now(world, LAMBDA w :
    [w EXCEPT !.recv[connection] = IF ok THEN Received(@, message) ELSE @,
              !.inflight[connection] = Append(@, w.self),
              !.faults = IF ok THEN @ ELSE @ + 1,
              !.loc.cur = connection,
              !.loc.ok = ok,
              !.loc.waiting = TRUE])

\* broadcast(event_type, data), up to the for statement: the envelope.  A
\* request keeps the list of the broadcasts it has called, each with the
\* status and the result its task had at the call (history).
broadcast_begin(world, event_type, data) ==
  Now(world, LAMBDA w :
    LET w1 == [w EXCEPT !.clock = @ + 1,
                        !.loc.msg = [type |-> event_type, data |-> data,
                                     timestamp |-> w.clock],
                        !.loc.idx = 0,
                        !.loc.disconnected = << >>,
                        !.loc.sending = TRUE,
                        !.loc.delivered = << >>,
                        !.loc.before = w.active_connections,
                        !.loc.quiet = TRUE]
    IN  IF "events" \in DOMAIN w.loc
        THEN [w1 EXCEPT !.loc.events =
                Append(@, [ type |-> event_type, data |-> data,
                            status |-> w.tasks[w.loc.task].status,
                            result |-> w.tasks[w.loc.task].result ])]
        ELSE w1)

\* A clean-up that removes only the first handle that failed.
disconnect_first(world, disconnected) ==
  Now(world, LAMBDA w :
    IF disconnected = << >> THEN w ELSE disconnect(w, Head(disconnected)))

\* "for connection in disconnected: self.disconnect(connection)"
RECURSIVE disconnect_each(_, _)
disconnect_each(world, disconnected) ==
  Now(world, LAMBDA w :
    IF disconnected = << >> THEN w
    ELSE disconnect_each(disconnect(w, Head(disconnected)), Tail(disconnected)))

\* The end of broadcast(): the clean-up of the failed handles, and the return.
\* What the call did is added to returned (history).
broadcast_end(world) ==
  Now(world, LAMBDA w :
    LET w1 == disconnect_each(w, w.loc.disconnected)
    IN  [w1 EXCEPT
           !.loc = [ k \in DOMAIN w.loc |->
                     IF k \in DOMAIN NoBroadcast THEN NoBroadcast[k] ELSE w.loc[k] ],
           !.returned = Append(@, [ flow |-> w.self,
                                    type |-> w.loc.msg.type,
                                    data |-> w.loc.msg.data,
                                    before |-> w.loc.before,
                                    delivered |-> w.loc.delivered,
                                    failed |-> w.loc.disconnected,
                                    at_end |-> w.active_connections,
                                    after |-> w1.active_connections,
                                    quiet |-> w.loc.quiet ])])

\* One turn of "for connection in self.active_connections": the list iterator
\* holds an index into the live list; it yields the element at that index and
\* steps, or ends the loop when the index has reached the length of the list.
broadcast_next(world, ok) ==
  Now(world, LAMBDA w :
    IF w.loc.idx < Len(w.active_connections)
    THEN send_json([w EXCEPT !.loc.idx = @ + 1,
                             !.loc.delivered =
                                IF ok THEN Append(@, w.active_connections[w.loc.idx + 1])
                                ELSE @],
                   w.active_connections[w.loc.idx + 1], w.loc.msg, ok)
    ELSE broadcast_end(w))

\* A broadcast whose except clause raises again instead of noting the handle.
OnSendErrorRaises(world) ==
  Now(world, LAMBDA w :
    [w EXCEPT !.loc.exc = "send failed"])

\* "except Exception as e: ... disconnected.append(connection)"
OnSendError(world) ==
  Now(world, LAMBDA w :
    [w EXCEPT !.loc.disconnected = Append(@, w.loc.cur)])

\* A broadcast that sends outside any try statement: a failed send raises
\* out of broadcast().
send_returned_unguarded(world) ==
  Now(world, LAMBDA w :
    [w EXCEPT !.inflight[w.loc.cur] = ListRemove(@, w.self),
              !.loc.waiting = FALSE,
              !.loc.exc = IF w.loc.ok THEN @ ELSE "send failed"])

\* The flow resumes from await connection.send_json(message).
send_returned(world) ==
  Now(world, LAMBDA w :
    LET w1 == [w EXCEPT !.inflight[w.loc.cur] = ListRemove(@, w.self),
                        !.loc.waiting = FALSE]
    IN  IF w.loc.ok THEN w1 ELSE OnSendError(w1))

\* May the flow suspended in a send to c resume now?  With transport "fifo"
\* the sends to one handle complete in the order they were started.
CanResume(self, c) ==
  load.transport = "any" \/ Head(inflight[c]) = self

\* -------------------------------------------------------------- Task, dict
\* dict.get(key, default)
Get(d, key, default) == IF key \in DOMAIN d THEN d[key] ELSE default

\* Task.to_dict(): the snapshot of a task that is sent and returned.  The
\* times (created_at, updated_at) and the metadata of a task are left out:
\* the code writes them and never reads them.
to_dict(task) ==
  [ id |-> task.id, description |-> task.description, status |-> task.status,
    result |-> task.result, agent_id |-> task.agent_id,
    priority |-> task.priority ]

\* A branch copied from the coordinator's without changing the text.
ResultPrefixCopied(agent_id) ==
  CASE agent_id = "coordinator" -> "Odin's wisdom: "
    [] agent_id = "architect" -> "Odin's wisdom: "
    [] OTHER -> ""

\* The text put before the gateway's text, by agent.
ResultPrefix(agent_id) ==
  CASE agent_id = "coordinator" -> "Odin's wisdom: "
    [] agent_id = "architect" -> "Thor's guidance: "
    [] OTHER -> ""

\* The activity announced before the gateway call, by (known) agent.
Activity(agent_id) ==
  CASE agent_id = "assistant" -> "Bragi is analyzing your task"
    [] agent_id = "coordinator" -> "Odin is coordinating your task"
    [] agent_id = "architect" -> "Thor is architecting your solution"

KnownAgents == { "assistant", "coordinator", "architect" }

\* broadcast_task_progress(task_id, progress, status, current_action); the
\* float progress is written as its decimal text.
broadcast_task_progress(world, task_id, progress, status, current_action) ==
  Now(world, LAMBDA w :
    broadcast_begin(w, "task_progress",
      [ task_id |-> task_id, progress |-> progress, status |-> status,
        current_action |-> current_action ]))

\* broadcast_agent_activity(agent_id, activity): details defaults to {}.
broadcast_agent_activity(world, agent_id, activity) ==
  Now(world, LAMBDA w :
    broadcast_begin(w, "agent_activity",
      [ agent_id |-> agent_id, activity |-> activity, details |-> << >> ]))

\* ------------------------------------------------- ForgeKernel._spawn_task
\* The flow's own task object (ForgeKernel.tasks holds the same object).
TaskOf(w) == w.tasks[w.loc.task]

\* A _spawn_task that builds the task PENDING.
spawn_begin_pending(world, s, task_data) ==
  Now(world, LAMBDA w :
    IF task_data.kind # "dict"
    THEN [w EXCEPT !.loc.pc = "raised", !.loc.exc = "AttributeError"]
    ELSE
    LET task == [ id |-> s,
                  description |-> Get(task_data.value, "description", ""),
                  status |-> PENDING,
                  agent_id |-> Get(task_data.value, "agent_id", "assistant"),
                  priority |-> Get(task_data.value, "priority", 1),
                  result |-> None ]
        w1 == [w EXCEPT !.tasks = Append(@, task),
                        !.loc.task = Len(w.tasks) + 1,
                        !.loc.pc = "task_created"]
    IN  broadcast_begin(w1, "task_created", to_dict(task)))

\* A _spawn_task that puts the new task at the head of the store.
spawn_begin_prepended(world, s, task_data) ==
  Now(world, LAMBDA w :
    IF task_data.kind # "dict"
    THEN [w EXCEPT !.loc.pc = "raised", !.loc.exc = "AttributeError"]
    ELSE
    LET task == [ id |-> s,
                  description |-> Get(task_data.value, "description", ""),
                  status |-> IN_PROGRESS,
                  agent_id |-> Get(task_data.value, "agent_id", "assistant"),
                  priority |-> Get(task_data.value, "priority", 1),
                  result |-> None ]
        w1 == [w EXCEPT !.tasks = << task >> \o @,
                        !.loc.task = 1,
                        !.loc.pc = "task_created"]
    IN  broadcast_begin(w1, "task_created", to_dict(task)))

\* _spawn_task up to its first broadcast: the task is built IN_PROGRESS and
\* appended to the store, then broadcast("task_created", ...) is called.
\* task_data is what request.json() returned: when it is not a dict,
\* task_data.get raises AttributeError and nothing is appended.
spawn_begin(world, s, task_data) ==
  Now(world, LAMBDA w :
    IF task_data.kind # "dict"
    THEN [w EXCEPT !.loc.pc = "raised", !.loc.exc = "AttributeError"]
    ELSE
    LET task == [ id |-> s,
                  description |-> Get(task_data.value, "description", ""),
                  status |-> IN_PROGRESS,
                  agent_id |-> Get(task_data.value, "agent_id", "assistant"),
                  priority |-> Get(task_data.value, "priority", 1),
                  result |-> None ]
        w1 == [w EXCEPT !.tasks = Append(@, task),
                        !.loc.task = Len(w.tasks) + 1,
                        !.loc.pc = "task_created"]
    IN  broadcast_begin(w1, "task_created", to_dict(task)))

\* A success path that does not count the task.
on_success_uncounted(world, result_text) ==
  Now(world, LAMBDA w :
    LET w1 == [w EXCEPT !.tasks[w.loc.task].result = result_text,
                        !.tasks[w.loc.task].status = COMPLETED,
                        !.loc.pc = "progress_completed"]
    IN  broadcast_begin(w1, "task_progress",
          [ task_id |-> w1.tasks[w1.loc.task].id, progress |-> "1.0",
            status |-> "completed",
            current_action |-> "Task completed successfully" ]))

\* The try block after the gateway has returned result_text.
on_success(world, result_text) ==
  Now(world, LAMBDA w :
    LET w1 == [w EXCEPT !.tasks[w.loc.task].result = result_text,
                        !.tasks[w.loc.task].status = COMPLETED,
                        !.tasks_completed = @ + 1,
                        !.loc.pc = "progress_completed"]
    IN  broadcast_task_progress(w1, TaskOf(w1).id, "1.0", "completed",
                                "Task completed successfully"))

\* An except clause that records the error text but not the status.
on_exception_keeps_status(world, exc) ==
  Now(world, LAMBDA w :
    LET w1 == [w EXCEPT !.tasks[w.loc.task].result = exc,
                        !.tasks_failed = @ + 1,
                        !.loc.exc = None,
                        !.loc.pc = "progress_failed"]
    IN  broadcast_begin(w1, "task_progress",
          [ task_id |-> w1.tasks[w1.loc.task].id, progress |-> "1.0",
            status |-> "failed", current_action |-> "Task failed: " \o exc ]))

\* "except Exception as exc": the handler of whatever the try block raised.
on_exception(world, exc) ==
  Now(world, LAMBDA w :
    LET w1 == [w EXCEPT !.tasks[w.loc.task].result = exc,
                        !.tasks[w.loc.task].status = FAILED,
                        !.tasks_failed = @ + 1,
                        !.loc.exc = None,
                        !.loc.pc = "progress_failed"]
    IN  broadcast_task_progress(w1, TaskOf(w1).id, "1.0", "failed",
                                "Task failed: " \o exc))

\* A gateway call that is made again when it has raised.
process_task_retry(world, g) ==
  Now(world, LAMBDA w :
    LET w1 == [w EXCEPT !.gateway_calls = @ + (IF g.kind = "raise" THEN 2 ELSE 1),
                        !.loc.outcome = g]
    IN  IF g.kind = "return"
        THEN on_success(w1, ResultPrefix(w.tasks[w.loc.task].agent_id) \o g.text)
        ELSE on_exception(w1, g.text))

\* bragi.process_task(task.id, task.description) with outcome g, and the
\* statement it is called in.
process_task(world, g) ==
  Now(world, LAMBDA w :
    LET w1 == [w EXCEPT !.gateway_calls = @ + 1, !.loc.outcome = g]
    IN  IF g.kind = "return"
        THEN on_success(w1, ResultPrefix(TaskOf(w).agent_id) \o g.text)
        ELSE on_exception(w1, g.text))

\* The head of the try block: the branch on task.agent_id.
try_agent(world, g) ==
  Now(world, LAMBDA w :
    IF TaskOf(w).agent_id \in KnownAgents
    THEN broadcast_agent_activity([w EXCEPT !.loc.pc = "agent_activity"],
                                  TaskOf(w).agent_id, Activity(TaskOf(w).agent_id))
    ELSE process_task(w, g))

\* A _spawn_task that ends with an exception where it should return.
spawn_return_raises(world) ==
  Now(world, LAMBDA w :
    [w EXCEPT !.loc.pc = "raised", !.loc.sending = FALSE, !.loc.waiting = FALSE])

\* "return task"
spawn_return(world) ==
  Now(world, LAMBDA w :
    [w EXCEPT !.loc.pc = "done", !.loc.ret = to_dict(TaskOf(w))])

\* An exception leaves _spawn_task (and the request fails).
spawn_raise(world) ==
  Now(world, LAMBDA w :
    [w EXCEPT !.loc.pc = "raised", !.loc.sending = FALSE, !.loc.waiting = FALSE])

\* The code that follows the broadcast the flow was in (named by loc.pc), that
\* broadcast having returned (loc.exc = None) or raised (loc.exc).
spawn_after(world, g) ==
  Now(world, LAMBDA w :
    LET pc == w.loc.pc
        raised == w.loc.exc # None
    IN  CASE pc = "task_created" ->
               IF raised THEN spawn_raise(w)
               ELSE broadcast_task_progress([w EXCEPT !.loc.pc = "progress_started"],
                      TaskOf(w).id, "0.1", "started", "Initializing task processing")
          [] pc = "progress_started" ->
               IF raised THEN spawn_raise(w) ELSE try_agent(w, g)
          [] pc = "agent_activity" ->
               IF raised THEN on_exception(w, w.loc.exc) ELSE process_task(w, g)
          [] pc = "progress_completed" ->
               IF raised THEN on_exception(w, w.loc.exc)
               ELSE broadcast_begin([w EXCEPT !.loc.pc = "update_completed"],
                                    "task_update", to_dict(TaskOf(w)))
          [] pc = "update_completed" ->
               IF raised THEN on_exception(w, w.loc.exc) ELSE spawn_return(w)
          [] pc = "progress_failed" ->
               IF raised THEN spawn_raise(w)
               ELSE broadcast_begin([w EXCEPT !.loc.pc = "update_failed"],
                                    "task_update", to_dict(TaskOf(w)))
          [] pc = "update_failed" ->
               IF raised THEN spawn_raise(w) ELSE spawn_return(w))

\* The flow runs on from inside a broadcast until it waits in a send or
\* _spawn_task is left.  ok: whether the next send started is going to
\* succeed; g: what the gateway does if it is called.
RECURSIVE spawn_run(_, _, _)
spawn_run(world, ok, g) ==
  Now(world, LAMBDA w :
    IF w.loc.pc \in { "done", "raised" } THEN w
    ELSE IF w.loc.exc # None THEN spawn_run(spawn_after(w, g), ok, g)
    ELSE LET w1 == broadcast_next(w, ok)
         IN  IF w1.loc.waiting THEN w1 ELSE spawn_run(spawn_after(w1, g), ok, g))

\* GET /tasks: the snapshots of the stored tasks, in the order of the store.
fetch_all_tasks ==
  [ tasks |-> [ i \in 1..Len(tasks) |-> to_dict(tasks[i]) ] ]

\* A create_new_task without the availability test.
create_new_task_unchecked(world) ==
  Now(world, LAMBDA w :
    [w EXCEPT !.loc.pc = "json"])

\* create_new_task (POST /tasks) up to "await request.json()".
create_new_task(world) ==
  Now(world, LAMBDA w :
    IF ~BRAGI_AVAILABLE
    THEN [w EXCEPT !.loc.pc = "rejected"]
    ELSE [w EXCEPT !.loc.pc = "json"])

\* create_new_task from "await request.json()" on: request.json() raises on
\* a body that is not JSON and the request ends with that exception;
\* otherwise _spawn_task runs to its first await, or to its end.
create_new_task_body(world, s, body, ok, g) ==
  Now(world, LAMBDA w :
    IF body.kind = "JSONDecodeError"
    THEN [w EXCEPT !.loc.pc = "raised", !.loc.exc = "JSONDecodeError"]
    ELSE spawn_run(spawn_begin(w, s, body), ok, g))

SpawnPcs == { "task_created", "progress_started", "agent_activity",
              "progress_completed", "update_completed",
              "progress_failed", "update_failed" }

SubFlow(s) == << "sub", s >>
WsFlow(c) == << "ws", c >>

\* A POST /tasks request arrives.
Submit(s) ==
  /\ sub[s].pc = "idle"
  /\ \A j \in 1..(s - 1) : sub[j].pc # "idle"
  /\ s <= load.subs
  /\ LET w == create_new_task(World(SubFlow(s), sub[s]))
     IN  Run(w)

\* request.json() returns the body or raises; _spawn_task runs to its first
\* await, or the request ends with an exception and no task.
SpawnTask(s) ==
  /\ sub[s].pc = "json"
  /\ \E p \in load.payloads, ok \in BOOLEAN, g \in GatewayOutcomes :
       LET w == create_new_task_body(World(SubFlow(s), sub[s]), s, Payloads[p], ok, g)
       IN  Run(w)

\* A send of one of _spawn_task's broadcasts returns or raises; the flow runs
\* on to its next await or to the end of the request.
SpawnResume(s) ==
  /\ sub[s].pc \in SpawnPcs
  /\ sub[s].waiting
  /\ CanResume(SubFlow(s), sub[s].cur)
  /\ \E ok \in BOOLEAN, g \in GatewayOutcomes :
       LET w == spawn_run(send_returned(World(SubFlow(s), sub[s])), ok, g)
       IN  Run(w)

\* ------------------------------------------------------ websocket_endpoint
ConnectionStatus ==
  [ type |-> "connection_status",
    data |-> [ status |-> "connected",
               message |-> "Successfully connected to Forge WebSocket server" ] ]

\* A handler that ends without the finally clause.
endpoint_finally_skipped(world, websocket) ==
  Now(world, LAMBDA w :
    [w EXCEPT
       !.loc.pc = "closed",
       !.loc.exc = None,
       !.loc.sending = FALSE,
       !.ended = [ handle |-> websocket, from |-> w.loc.pc,
                   absent |-> ~Member(w.active_connections, websocket) ]])

\* "finally: ws_manager.disconnect(websocket)", and the handler ends.
endpoint_finally(world, websocket) ==
  Now(world, LAMBDA w :
    [disconnect(w, websocket) EXCEPT
       !.loc.pc = "closed",
       !.loc.exc = None,
       !.loc.sending = FALSE,
       !.ended = [ handle |-> websocket, from |-> w.loc.pc,
                   absent |-> ~Member(w.active_connections, websocket) ]])

\* A handler without the origin check.
endpoint_begin_open(world, origin) ==
  Now(world, LAMBDA w :
    [w EXCEPT !.loc.pc = "accept", !.loc.origin = origin])

\* The handler up to its first await: the origin check.
endpoint_begin(world, origin) ==
  Now(world, LAMBDA w :
    IF origin \notin allowed_origins
    THEN [w EXCEPT !.loc.pc = "close", !.loc.origin = origin]
    ELSE [w EXCEPT !.loc.pc = "accept", !.loc.origin = origin])

\* A handler that waits once more between connect() and its first send: the
\* handle is registered and connection_status is not yet handed over.
endpoint_accepted_late(world, websocket, ok) ==
  Now(world, LAMBDA w :
    [connect(w, websocket) EXCEPT
       !.loc.pc = "connection_status",
       !.inflight[websocket] = Append(@, w.self),
       !.loc.cur = websocket,
       !.loc.ok = ok,
       !.loc.waiting = TRUE])

\* accept() has returned: connect() appends the handle, and the handler
\* starts to send the connection_status message.
endpoint_accepted(world, websocket, ok) ==
  Now(world, LAMBDA w :
    send_json([connect(w, websocket) EXCEPT !.loc.pc = "connection_status"],
              websocket, ConnectionStatus, ok))

\* The relay's broadcast runs on until it waits in a send or returns to the
\* receive loop.
relay_run(world, ok) ==
  Now(world, LAMBDA w :
    LET w1 == broadcast_next(w, ok)
    IN  IF w1.loc.waiting THEN [w1 EXCEPT !.loc.pc = "relay"]
        ELSE [w1 EXCEPT !.loc.pc = "receive"])

\* The body of the receive loop for what receive_json yields.
endpoint_received(world, websocket, ev, ok) ==
  Now(world, LAMBDA w :
    IF ev.kind = "json"
    THEN IF "type" \in DOMAIN ev.json
         THEN relay_run(broadcast_begin(
                          [w EXCEPT !.relays = @ + 1,
                                    !.heard = [ handle |-> websocket, json |-> ev.json ]],
                          ev.json.type, Get(ev.json, "data", << >>)), ok)
         ELSE w
    ELSE endpoint_finally(w, websocket))

\* A /ws request arrives with some origin header.
Connect(c) ==
  /\ ws[c].pc = "new"
  /\ \A j \in 1..(c - 1) : ws[j].pc # "new"
  /\ c <= load.conns
  /\ \E origin \in Origins :
       LET w == endpoint_begin(World(WsFlow(c), ws[c]), origin)
       IN  Run(w)

\* websocket.close(code=1008) returns (or raises): the handler ends.
CloseReturns(c) ==
  /\ ws[c].pc = "close"
  /\ LET w == endpoint_finally(World(WsFlow(c), ws[c]), c)
     IN  Run(w)

\* websocket.accept() returns or raises.
AcceptReturns(c) ==
  /\ ws[c].pc = "accept"
  /\ \E accepted \in BOOLEAN, ok \in BOOLEAN :
       LET w0 == World(WsFlow(c), ws[c])
           w == IF accepted THEN endpoint_accepted(w0, c, ok)
                ELSE endpoint_finally(w0, c)
       IN  Run(w)

\* The send of connection_status returns or raises.
StatusReturns(c) ==
  /\ ws[c].pc = "connection_status"
  /\ CanResume(WsFlow(c), c)
  /\ LET w0 == World(WsFlow(c), ws[c])
         w1 == [w0 EXCEPT !.inflight[c] = ListRemove(@, w0.self),
                          !.loc.waiting = FALSE]
         w == IF w0.loc.ok THEN [w1 EXCEPT !.loc.pc = "receive"]
              ELSE endpoint_finally(w1, c)
     IN  Run(w)

\* receive_json() returns a message or raises.
Receive(c) ==
  /\ ws[c].pc = "receive"
  /\ \E e \in load.events, ok \in BOOLEAN :
       /\ (ClientEvents[e].kind = "json" /\ "type" \in DOMAIN ClientEvents[e].json)
            => relays < load.relays
       /\ LET w == endpoint_received(World(WsFlow(c), ws[c]), c, ClientEvents[e], ok)
          IN  Run(w)

\* A send of the relay's broadcast returns or raises.
RelayResume(c) ==
  /\ ws[c].pc = "relay"
  /\ ws[c].waiting
  /\ CanResume(WsFlow(c), ws[c].cur)
  /\ \E ok \in BOOLEAN :
       LET w1 == send_returned(World(WsFlow(c), ws[c]))
           w == IF w1.loc.exc # None THEN endpoint_finally(w1, c)
                ELSE relay_run(w1, ok)
       IN  Run(w)

\* ------------------------------------------------------------ specification
SubInit ==
  [ pc |-> "idle", task |-> 0, ret |-> None, exc |-> None,
    outcome |-> [kind |-> "none"], events |-> << >>,
    msg |-> None, idx |-> 0, disconnected |-> << >>, cur |-> 0, ok |-> TRUE,
    waiting |-> FALSE, sending |-> FALSE, delivered |-> << >>,
    before |-> << >>, quiet |-> TRUE ]

WsInit ==
  [ pc |-> "new", origin |-> None, exc |-> None,
    msg |-> None, idx |-> 0, disconnected |-> << >>, cur |-> 0, ok |-> TRUE,
    waiting |-> FALSE, sending |-> FALSE, delivered |-> << >>,
    before |-> << >>, quiet |-> TRUE ]

\* The locals of a caller of WebSocketManager's methods.
ApiLoc == [ k \in DOMAIN NoBroadcast \cup { "exc" } |->
            IF k = "exc" THEN None ELSE NoBroadcast[k] ]

InitProgram ==
  /\ active_connections = << >>
  /\ tasks = << >>
  /\ tasks_completed = 0
  /\ tasks_failed = 0
  /\ BRAGI_AVAILABLE \in BOOLEAN
  /\ clock = 1
  /\ sub = [s \in Subs |-> SubInit]
  /\ ws = [c \in Conns |-> WsInit]
  /\ api = [a \in ApiCallers |-> ApiLoc]
  /\ recv = [c \in Conns |-> << >>]
  /\ inflight = [c \in Conns |-> << >>]
  /\ gateway_calls = 0
  /\ relays = 0
  /\ faults = 0
  /\ returned = << >>
  /\ ended = NoEnd
  /\ heard = NoMessage

Init == InitProgram /\ load \in Workloads

Next ==
  \/ \E s \in Subs : Submit(s) \/ SpawnTask(s) \/ SpawnResume(s)
  \/ \E c \in Conns : \/ Connect(c) \/ CloseReturns(c) \/ AcceptReturns(c)
                      \/ StatusReturns(c) \/ Receive(c) \/ RelayResume(c)

Spec == Init /\ [][Next]_vars

\* ------------------------------------------------------- fair scheduling
\* The event loop goes on resuming flows whose await has completed (the body
\* of a request has arrived, a send that was started returns or raises) as
\* long as there is one.  What clients do (connect, send, disconnect) is left
\* to them.
LiveWorkloads ==
  { [ subs |-> 1, conns |-> 1, relays |-> 1, faults |-> MaxFaults,
      transport |-> "any", payloads |-> { 1, 2, 6, 7 }, events |-> 1..4 ],
    [ subs |-> 1, conns |-> MaxConns - 1, relays |-> 0, faults |-> 1,
      transport |-> "fifo", payloads |-> 1..2, events |-> 1..4 ],
    [ subs |-> MaxSubs, conns |-> 1, relays |-> 0, faults |-> 1,
      transport |-> "any", payloads |-> { 1, 8 }, events |-> { 3 } ] }

InitLive == InitProgram /\ load \in LiveWorkloads

Resume ==
  \/ \E s \in Subs : SpawnTask(s) \/ SpawnResume(s)
  \/ \E c \in Conns : StatusReturns(c) \/ RelayResume(c)

Fairness == WF_vars(Resume)

SpecLive == InitLive /\ [][Next]_vars /\ Fairness

\* ------------------------------------------- WebSocketManager used alone
\* The methods of WebSocketManager called by callers of their own, in any
\* order and with any handle.  connect() and disconnect() run to their end;
\* a broadcast() waits in each send, and the other callers run meanwhile.
ApiFlow(a) == << "api", a >>

\* The handles the callers hold.
ApiHandles == 1..MaxRegistered

\* await ws_manager.connect(websocket), accept() returning.
ApiConnect(c) ==
  /\ load.conns = 0
  /\ Len(active_connections) < MaxRegistered
  /\ LET w == connect(World(ApiFlow(0), ApiLoc), c)
     IN  Run(w)

\* ws_manager.disconnect(websocket)
ApiDisconnect(c) ==
  /\ load.conns = 0
  /\ LET w == disconnect(World(ApiFlow(0), ApiLoc), c)
     IN  Run(w)

\* await ws_manager.broadcast("event", {}), up to its first send, or to its
\* return when the list is empty.
ApiBroadcast(a) ==
  /\ load.conns = 0
  /\ ~api[a].sending
  /\ \A b \in 1..(a - 1) : api[b].sending
  /\ \E ok \in BOOLEAN :
       LET w == broadcast_next(
                  broadcast_begin(World(ApiFlow(a), api[a]), "event", << >>), ok)
       IN  Run(w)

\* A send of caller a's broadcast returns or raises; the broadcast goes on to
\* its next send or to its return.
ApiBroadcastResume(a) ==
  /\ load.conns = 0
  /\ api[a].waiting
  /\ CanResume(ApiFlow(a), api[a].cur)
  /\ \E ok \in BOOLEAN :
       LET w == broadcast_next(send_returned(World(ApiFlow(a), api[a])), ok)
       IN  Run(w)

InitRegistry ==
  /\ InitProgram
  /\ load = [ subs |-> 0, conns |-> 0, relays |-> 0, faults |-> MaxFaults,
              transport |-> "any", payloads |-> {}, events |-> {} ]

NextRegistry ==
  \/ \E c \in ApiHandles : ApiConnect(c) \/ ApiDisconnect(c)
  \/ \E a \in ApiCallers : ApiBroadcast(a) \/ ApiBroadcastResume(a)

SpecRegistry == InitRegistry /\ [][NextRegistry]_vars

\* ------------------------------------------------------------------ claims
Terminal == { COMPLETED, FAILED }

StatusCount(status) ==
  Cardinality({ i \in 1..Len(tasks) : tasks[i].status = status })

\* The list s without the elements of the set F, in the order of s.
RECURSIVE Without(_, _)
Without(s, F) ==
  IF s = << >> THEN << >>
  ELSE IF Head(s) \in F THEN Without(Tail(s), F)
  ELSE << Head(s) >> \o Without(Tail(s), F)

\* C1: the Task that _spawn_task returns has status Completed or Failed,
\* never Pending or InProgress, whether the gateway returned or raised and
\* whichever sends failed.
ReturnedTaskIsTerminal ==
  \A s \in Subs : sub[s].pc = "done" => sub[s].ret.status \in Terminal

\* A request has returned its task after the gateway raised and a send failed.
ReturnedAfterGatewayRaise ==
  \E s \in Subs : /\ sub[s].pc = "done"
                  /\ sub[s].outcome.kind = "raise"
                  /\ sub[s].ret.status = FAILED
                  /\ faults > 0

\* C2: a stored task is InProgress with no result, or terminal with a result;
\* a step leaves a task as it is or takes it from InProgress to Completed or
\* Failed and writes its result in that step; a terminal task never changes
\* again, and no task leaves the store.
TaskSettled(t) == (t.status = IN_PROGRESS /\ t.result = None)
                    \/ (t.status \in Terminal /\ t.result # None)

TaskStep(t, u) ==
  \/ u = t
  \/ /\ t.status = IN_PROGRESS
     /\ u.status \in Terminal
     /\ u.result # None
     /\ u = [t EXCEPT !.status = u.status, !.result = u.result]

TaskLifecycle ==
  /\ [](\A i \in 1..Len(tasks) : TaskSettled(tasks[i]))
  /\ [][ /\ Len(tasks') >= Len(tasks)
         /\ \A i \in 1..Len(tasks) : TaskStep(tasks[i], tasks'[i]) ]_vars

\* A request has returned a Completed task although a send of its last
\* broadcast failed after the task was marked Completed.
CompletedThenSendFailed ==
  \E s \in Subs :
    /\ sub[s].pc = "done"
    /\ tasks[sub[s].task].status = COMPLETED
    /\ \E i \in 1..Len(returned) : /\ returned[i].flow = SubFlow(s)
                                   /\ returned[i].type = "task_update"
                                   /\ returned[i].failed # << >>

\* C3: tasks_completed is the number of Completed tasks of the store and
\* tasks_failed the number of Failed ones, in every state; a step that makes a
\* task Completed adds 1 to tasks_completed alone, a step that makes a task
\* Failed adds 1 to tasks_failed alone, and no other step changes a counter.
Became(status) ==
  Cardinality({ i \in 1..Len(tasks') :
                  /\ tasks'[i].status = status
                  /\ i <= Len(tasks) => tasks[i].status # status })

CountersMatchStore ==
  /\ [](/\ tasks_completed = StatusCount(COMPLETED)
        /\ tasks_failed = StatusCount(FAILED))
  /\ [][ /\ tasks_completed' = tasks_completed + Became(COMPLETED)
         /\ tasks_failed' = tasks_failed + Became(FAILED)
         /\ Became(COMPLETED) + Became(FAILED) <= 1 ]_vars

\* Two requests are suspended in sends at the same time, the task of one
\* Completed and the task of the other Failed.
ConcurrentTerminalTasks ==
  \E s, t \in Subs :
    /\ sub[s].waiting /\ sub[t].waiting
    /\ tasks[sub[s].task].status = COMPLETED
    /\ tasks[sub[t].task].status = FAILED

\* C4: a broadcast during which no other flow changed the registry leaves
\* the registry it found less the handles whose send failed, has sent the
\* message exactly once to every other handle it found, and to no handle
\* whose send failed.
QuietBroadcastExact ==
  \A i \in 1..Len(returned) :
    LET r == returned[i]
        F == Range(r.failed)
    IN  r.quiet =>
          /\ F \subseteq Range(r.before)
          /\ r.after = Without(r.before, F)
          /\ \A c \in Range(r.before) \ F : Count(r.delivered, c) = 1
          /\ \A c \in F : Count(r.delivered, c) = 0

\* A quiet broadcast over two handles has returned; the send to the first
\* handle of the list failed and the send to the second did not.
QuietBroadcastFirstFailed ==
  \E i \in 1..Len(returned) :
    /\ returned[i].quiet
    /\ Len(returned[i].before) = 2
    /\ returned[i].failed = << returned[i].before[1] >>
    /\ returned[i].delivered = << returned[i].before[2] >>

\* C5: no request whose task was created ends with an exception (only a body
\* that is not a JSON dict ends a request so, before any task or send); the
\* status and the result of a returned task are those the gateway outcome
\* alone decides, and the counters count the gateway outcomes, whether or
\* not sends failed.
Decided(kind) == { s \in Subs : sub[s].outcome.kind = kind }

SendFailureNeverSurfaces ==
  /\ \A s \in Subs :
       (sub[s].pc = "raised" \/ sub[s].exc # None) =>
         /\ sub[s].task = 0
         /\ sub[s].events = << >>
         /\ sub[s].exc \in { "JSONDecodeError", "AttributeError" }
  /\ \A c \in Conns : ws[c].exc = None
  /\ \A s \in Subs : sub[s].pc = "done" =>
        LET t == tasks[sub[s].task]
            g == sub[s].outcome
        IN  IF g.kind = "return"
            THEN t.status = COMPLETED /\ t.result = ResultPrefix(t.agent_id) \o g.text
            ELSE t.status = FAILED /\ t.result = g.text
  /\ tasks_completed = Cardinality(Decided("return"))
  /\ tasks_failed = Cardinality(Decided("raise"))

\* A request has returned a Completed task while a handle that a failed send
\* removed from the registry still has its handler running.
CompletedWhilePruned ==
  \E s \in Subs, c \in Conns :
    /\ sub[s].pc = "done"
    /\ sub[s].ret.status = COMPLETED
    /\ ws[c].pc = "receive"
    /\ ~Member(active_connections, c)
    /\ faults > 0

\* C6: a handle that is registered when a broadcast is called and still
\* registered when its loop ends, and whose send did not fail, has been sent
\* the message.  (The list iterator of broadcast() steps over a handle when
\* an earlier handle leaves the list while the broadcast waits in a send.)
NoRegisteredConnectionSkipped ==
  \A i \in 1..Len(returned) :
    LET r == returned[i]
    IN  \A c \in (Range(r.before) \cap Range(r.at_end)) \ Range(r.failed) :
          Member(r.delivered, c)

\* C7: the stamped messages a client was sent are in the order of their
\* broadcast calls (the envelope's timestamp is read when broadcast() is
\* called), here with every send to one handle completing in the order the
\* sends were started.
PerConnectionCallOrder ==
  load.transport = "fifo" =>
    \A c \in Conns : \A i, j \in 1..Len(recv[c]) :
      ( /\ i < j
        /\ "timestamp" \in DOMAIN recv[c][i]
        /\ "timestamp" \in DOMAIN recv[c][j] )
      => recv[c][i].timestamp < recv[c][j].timestamp

\* C8: every handle is in the list at most once.  (connect() appends without
\* looking whether the handle is already in the list.)
EachHandleOnce ==
  \A c \in Conns : Count(active_connections, c) <= 1

\* C9: in every state of the program, disconnect of a handle raises nothing,
\* a second disconnect of the same handle changes nothing, and disconnect of
\* a handle that is not in the list leaves the list as it is.
UnregisterIdempotent ==
  \A c \in Conns :
    LET w == World(WsFlow(c), ws[c])
        once == disconnect(w, c)
    IN  /\ once.loc.exc = None
        /\ disconnect(once, c) = once
        /\ Len(once.active_connections) <= Len(active_connections)
        /\ ~Member(active_connections, c) => once = w

\* A handler has just ended, in its receive loop, whose handle a broadcast
\* had already removed from the list: its disconnect found the handle absent.
UnregisteredTwice ==
  /\ ended.absent
  /\ ended.from = "receive"
  /\ ws[ended.handle].pc = "closed"

\* C10: with the gateway unavailable every request is rejected: the store is
\* empty, the gateway has not been called, the counters are 0, no request has
\* entered _spawn_task, and no client has been sent a task event.
TaskEvents == { "task_created", "task_progress", "task_update", "agent_activity" }

UnavailableRejects ==
  ~BRAGI_AVAILABLE =>
    /\ tasks = << >>
    /\ gateway_calls = 0
    /\ tasks_completed = 0 /\ tasks_failed = 0
    /\ \A s \in Subs : sub[s].pc \in { "idle", "rejected" } /\ ~sub[s].sending
    /\ \A c \in Conns : \A i \in 1..Len(recv[c]) : recv[c][i].type \notin TaskEvents
    /\ \A i \in 1..Len(returned) : returned[i].flow[1] # "sub"

\* A request has been rejected while a client is registered.
RejectedWhileListening ==
  /\ ~BRAGI_AVAILABLE
  /\ \E s \in Subs : sub[s].pc = "rejected"
  /\ active_connections # << >>

\* C11: the gateway is called once for each task that got an outcome; when
\* the call raised with message m the task is Failed with result m, the
\* request is in or past the except clause and has not raised, the
\* broadcasts it has called since are a task_progress with status "failed"
\* and then a task_update with the Failed snapshot, and the request returns
\* that task.
Called == { s \in Subs : sub[s].outcome.kind # "none" }

LastEvent(s, back) == sub[s].events[Len(sub[s].events) - back]

GatewayFailureAbsorbed ==
  /\ gateway_calls = Cardinality(Called)
  /\ \A s \in Subs : sub[s].outcome.kind = "raise" =>
        LET t == tasks[sub[s].task]
            m == sub[s].outcome.text
            progress == LastEvent(s, IF sub[s].pc = "progress_failed" THEN 0 ELSE 1)
        IN  /\ t.status = FAILED /\ t.result = m
            /\ sub[s].pc \in { "progress_failed", "update_failed", "done" }
            /\ progress.type = "task_progress"
            /\ progress.data.status = "failed"
            /\ progress.data.current_action = "Task failed: " \o m
            /\ sub[s].pc \in { "update_failed", "done" } =>
                  /\ LastEvent(s, 0).type = "task_update"
                  /\ LastEvent(s, 0).data.status = FAILED
                  /\ LastEvent(s, 0).data.result = m
            /\ sub[s].pc = "done" => sub[s].ret = to_dict(t)

\* A request whose gateway call raised "timeout" has returned; the client
\* was sent the failed task_progress and then the task_update.
FailureBroadcastThenReturned ==
  \E s \in Subs, c \in Conns :
    /\ sub[s].pc = "done"
    /\ sub[s].outcome = [kind |-> "raise", text |-> "timeout"]
    /\ Len(recv[c]) = 2
    /\ recv[c][1].type = "task_progress" /\ recv[c][1].data.status = "failed"
    /\ recv[c][2].type = "task_update" /\ recv[c][2].data.result = "timeout"

\* C12: when the gateway returned the text X, the task is Completed and its
\* result is X for "assistant", "Odin's wisdom: " + X for "coordinator",
\* "Thor's guidance: " + X for "architect" and X for any other agent_id; a
\* request with an unknown agent_id is not refused.
ExpectedResult(agent_id, X) ==
  CASE agent_id = "assistant" -> X
    [] agent_id = "coordinator" -> "Odin's wisdom: " \o X
    [] agent_id = "architect" -> "Thor's guidance: " \o X
    [] OTHER -> X

ResultByAgent ==
  \A s \in Subs :
    /\ sub[s].outcome.kind = "return" =>
         LET t == tasks[sub[s].task]
         IN  /\ t.status = COMPLETED
             /\ t.result = ExpectedResult(t.agent_id, sub[s].outcome.text)
             /\ sub[s].pc \in { "progress_completed", "update_completed", "done" }
    /\ sub[s].pc = "done" =>
         /\ sub[s].outcome.kind # "none"
         /\ sub[s].ret.result = tasks[sub[s].task].result

\* The architect's task has returned with the prefixed text.
ArchitectResultReturned ==
  \E s \in Subs :
    /\ sub[s].pc = "done"
    /\ sub[s].ret.agent_id = "architect"
    /\ sub[s].ret.result = "Thor's guidance: pong"

\* C13: a handle whose request came with an origin that is not on the list
\* is never in the registry, is sent nothing (no connection_status, no
\* broadcast, no send in flight), and its handler only closes the socket and
\* ends; the steps of that handler leave the registry as it is.
Refused(c) == ws[c].origin # None /\ ws[c].origin \notin allowed_origins

OriginRefused ==
  /\ [](\A c \in Conns : Refused(c) =>
          /\ ~Member(active_connections, c)
          /\ recv[c] = << >>
          /\ inflight[c] = << >>
          /\ ws[c].pc \in { "close", "closed" })
  /\ [][ \A c \in Conns :
           (ws'[c] # ws[c] /\ ws'[c].origin \notin allowed_origins)
             => active_connections' = active_connections ]_vars

\* A refused handler has ended and has been sent nothing, while a relayed
\* message was sent to a registered client.
RefusedDuringRelay ==
  \E c, d \in Conns :
    /\ Refused(c) /\ ws[c].pc = "closed" /\ recv[c] = << >>
    /\ Member(active_connections, d)
    /\ \E i \in 1..Len(recv[d]) : recv[d][i].type = "chat"

\* C14: every message a client was sent has the three fields type, data and
\* timestamp.  (The connection_status message of websocket_endpoint is
\* written out by hand with type and data only.)
EveryMessageIsEnvelope ==
  \A c \in Conns : \A i \in 1..Len(recv[c]) :
    DOMAIN recv[c][i] = { "type", "data", "timestamp" }

\* C15: the broadcasts a request has called for its task are, in this order,
\* task_created with an InProgress snapshot, task_progress 0.1 "started", one
\* agent_activity if the agent is one the code knows, task_progress 1.0
\* "completed" or "failed", and one task_update with the terminal snapshot;
\* the last two are called with the task already terminal and its result
\* written; a request that has returned has called them all.
EventKind(e) ==
  IF e.type = "task_progress"
  THEN << e.type, e.data.progress, e.data.status >>
  ELSE << e.type >>

ExpectedKinds(agent_id, final) ==
  << << "task_created" >>, << "task_progress", "0.1", "started" >> >>
    \o (IF agent_id \in { "assistant", "coordinator", "architect" }
        THEN << << "agent_activity" >> >> ELSE << >>)
    \o << << "task_progress", "1.0", final >>, << "task_update" >> >>

BroadcastOrderPerTask ==
  \A s \in Subs :
    LET ev == sub[s].events
    IN  IF sub[s].task = 0 THEN ev = << >>
        ELSE
          LET t == tasks[sub[s].task]
              expected == ExpectedKinds(t.agent_id,
                            IF t.status = FAILED THEN "failed" ELSE "completed")
          IN  /\ Len(ev) >= 1 /\ Len(ev) <= Len(expected)
              /\ \A i \in 1..Len(ev) :
                    /\ EventKind(ev[i]) = expected[i]
                    /\ i < Len(expected) - 1 =>
                          ev[i].status = IN_PROGRESS /\ ev[i].result = None
                    /\ i >= Len(expected) - 1 =>
                          /\ ev[i].status \in Terminal
                          /\ ev[i].status = t.status
                          /\ ev[i].result = t.result /\ t.result # None
              /\ ev[1].data.status = IN_PROGRESS /\ ev[1].data.id = t.id
              /\ Len(ev) = Len(expected) =>
                    /\ ev[Len(ev)].data.status = t.status
                    /\ ev[Len(ev)].data.result = t.result
              /\ sub[s].pc = "done" => Len(ev) = Len(expected)

\* A request for a known agent has returned a Failed task after its five
\* broadcasts.
FiveBroadcastsThenFailed ==
  \E s \in Subs :
    /\ sub[s].pc = "done"
    /\ Len(sub[s].events) = 5
    /\ sub[s].events[3].type = "agent_activity"
    /\ sub[s].ret.status = FAILED

\* C16: a client message with a "type" is broadcast with that type and with
\* its "data" ({} when it has none): the broadcast starts over the registry
\* as it is, with the first handle of the list, and what that client is sent
\* carries the type and the data of the client message; and a relay's
\* broadcast that has returned has sent the message to every handle that was
\* registered when the client message came in and is still registered, and
\* whose send did not fail.  (The relay uses broadcast(), whose list iterator
\* steps over a handle when an earlier handle leaves the list meanwhile.)
RelayReachesAll ==
  /\ heard.handle # 0 =>
        LET c == heard.handle
            type == heard.json.type
            data == IF "data" \in DOMAIN heard.json THEN heard.json.data ELSE << >>
        IN  IF active_connections = << >>
            THEN \E i \in 1..Len(returned) :
                   /\ returned[i].flow = WsFlow(c)
                   /\ returned[i].type = type /\ returned[i].data = data
            ELSE /\ ws[c].pc = "relay" /\ ws[c].waiting
                 /\ ws[c].msg.type = type /\ ws[c].msg.data = data
                 /\ ws[c].before = active_connections
                 /\ ws[c].cur = active_connections[1]
                 /\ ws[c].ok =>
                       LET got == recv[ws[c].cur][Len(recv[ws[c].cur])]
                       IN  got.type = type /\ got.data = data
  /\ \A i \in 1..Len(returned) :
        returned[i].flow[1] = "ws" =>
          (Range(returned[i].before) \cap Range(returned[i].after))
            \ Range(returned[i].failed)
              \subseteq Range(returned[i].delivered)

\* C17: every request whose task has been created ends: it returns its
\* task, Completed or Failed, whatever clients connect, disconnect or fail
\* meanwhile; and every request that has passed the availability test ends
\* so, or ends without a task because its body is not a JSON dict.
EverySubmissionEnds ==
  \A s \in Subs :
    /\ (sub[s].task # 0) ~>
         (sub[s].pc = "done" /\ tasks[sub[s].task].status \in Terminal)
    /\ (sub[s].pc = "json") ~>
         \/ sub[s].pc = "done" /\ tasks[sub[s].task].status \in Terminal
         \/ sub[s].pc = "raised" /\ sub[s].task = 0

\* A request has returned although a send failed on the way, a client
\* message was relayed and a handler has ended.
EndedDespiteChurn ==
  \E s \in Subs, c \in Conns :
    /\ sub[s].pc = "done"
    /\ faults > 0
    /\ relays > 0
    /\ ws[c].pc = "closed"

\* C18: the store only grows, by one task at its end per accepted request; a
\* listed task keeps its place, id, description, agent and priority; its
\* status and result change only in a step of the request that created it.
TaskStoreAppendOnly ==
  [][ LET before == fetch_all_tasks.tasks
          after == fetch_all_tasks'.tasks
      IN  /\ Len(after) \in { Len(before), Len(before) + 1 }
          /\ \A i \in 1..Len(before) :
                /\ after[i].id = before[i].id
                /\ after[i].description = before[i].description
                /\ after[i].agent_id = before[i].agent_id
                /\ after[i].priority = before[i].priority
                /\ after[i] # before[i] =>
                     \E s \in Subs : /\ sub[s].task = i
                                     /\ sub'[s].pc # sub[s].pc
                                     /\ \A o \in Subs \ { s } :
                                          sub'[o].pc = sub[o].pc
          /\ Len(after) = Len(before) + 1 =>
                \E s \in Subs : /\ sub[s].pc = "json"
                                /\ sub'[s].task = Len(after)
                                /\ after[Len(after)].id = s ]_vars

\* The task created second is listed second and has ended, its request has
\* returned, while the task created first is still in progress.
SecondEndedBeforeFirst ==
  /\ Len(tasks) = 2
  /\ fetch_all_tasks.tasks[1].status = IN_PROGRESS
  /\ fetch_all_tasks.tasks[2].status \in Terminal
  /\ \E s \in Subs : sub[s].task = 2 /\ sub[s].pc = "done"

\* C19: when a handler has just unregistered its connection, no flow is
\* suspended in a send to that connection.
NoSendInFlightAtUnregister ==
  (ended.handle # 0 /\ ~ended.absent) => inflight[ended.handle] = << >>

\* C20: a connection whose handler has ended, by any path, is not
\* registered.
EndedHandlerUnregistered ==
  \A c \in Conns : ws[c].pc = "closed" => ~Member(active_connections, c)

\* A handler has just ended because its connection_status send raised, its
\* connection still registered until then, after another handler had ended.
EndedOnStatusFailure ==
  /\ ended.handle # 0
  /\ ended.from = "connection_status"
  /\ ~ended.absent
  /\ ws[ended.handle].pc = "closed"
  /\ \E d \in Conns \ { ended.handle } : ws[d].pc = "closed"

\* C21: the step that registers a connection also hands its connection_status
\* message to the transport, nothing having been sent to it before; so the
\* first message of a connection whose connection_status send does not raise
\* is connection_status, whatever requests and relays are broadcasting.
StatusSendRaises(c) == ws[c].pc = "connection_status" /\ ~ws[c].ok

StatusIsFirstMessage ==
  [][ \A c \in Conns :
        /\ (~Member(active_connections, c) /\ Member(active_connections', c))
             => /\ ws[c].pc = "accept"
                /\ ws'[c].pc = "connection_status"
                /\ recv[c] = << >>
                /\ ws'[c].ok => recv'[c] = << ConnectionStatus >>
        /\ (recv[c] = << >> /\ recv'[c] # << >> /\ ~StatusSendRaises(c))
             => recv'[c] = << ConnectionStatus >> ]_vars

\* A connection whose connection_status send has not returned yet has been
\* sent connection_status and then a task_progress event of a request that
\* runs meanwhile.
TaskEventBehindStatus ==
  \E c \in Conns :
    /\ ws[c].pc = "connection_status"
    /\ Len(recv[c]) = 2
    /\ recv[c][1] = ConnectionStatus
    /\ recv[c][2].type = "task_progress"
====
